---- MODULE Spec2Model ----
(***************************************************************************)
(* A model of olebeck/colorjson (src/colorjson.go): the Formatter, its     *)
(* configuration fields, and the recursive renderer                        *)
(* Encode -> marshalValue -> marshalMap / marshalStruct / marshalArray /   *)
(* marshalString, writing through a bufio.Writer whose underlying sink may *)
(* fail.                                                                   *)
(*                                                                         *)
(* Text is a sequence of one-character strings ("bytes").  The byte 0x1b   *)
(* is written "ESC".  The sink records every write call as one chunk, so   *)
(* the output is a sequence of chunks and the emitted text is their        *)
(* concatenation.                                                          *)
(***************************************************************************)
EXTENDS Integers, Sequences, FiniteSets, TLC

VARIABLES f, sink, pc, jsonObj, out, ret, encErr

vars == <<f, sink, pc, jsonObj, out, ret, encErr>>

(***************************************************************************)
(* Bounds of the model.                                                    *)
(***************************************************************************)
\* Indent is drawn from 0..MaxIndent
MaxIndent == 2
\* StringMaxLength is drawn from 0..MaxStringMaxLength
MaxStringMaxLength == 3
\* the failing write call of a sink is drawn from 1..MaxFailAt
MaxFailAt == 3
\* the bytes a failing write still accepts are drawn from 0..MaxPartial
MaxPartial == 1

(***************************************************************************)
(* Text helpers.                                                           *)
(***************************************************************************)
Min(a, b) == IF a < b THEN a ELSE b

RECURSIVE Concat(_)
\* the concatenation of a sequence of texts
Concat(ss) == IF ss = <<>> THEN <<>> ELSE Head(ss) \o Concat(Tail(ss))

RECURSIVE SumLen(_)
\* the total number of bytes in a sequence of texts
SumLen(ss) == IF ss = <<>> THEN 0 ELSE Len(Head(ss)) + SumLen(Tail(ss))

Chars(t) == {t[i] : i \in 1..Len(t)}

\* strings.Repeat(" ", n)
Repeat(n) == [i \in 1..n |-> " "]

Digits == <<"0", "1", "2", "3", "4", "5", "6", "7", "8", "9">>

RECURSIVE FormatNat(_)
FormatNat(n) == IF n < 10 THEN <<Digits[n + 1]>>
                ELSE FormatNat(n \div 10) \o <<Digits[(n % 10) + 1]>>

\* strconv.FormatInt(n, 10)
FormatInt(n) == IF n < 0 THEN <<"-">> \o FormatNat(0 - n) ELSE FormatNat(n)

RECURSIVE Pow10(_)
Pow10(e) == IF e = 0 THEN 1 ELSE 10 * Pow10(e - 1)

RECURSIVE PadNat(_, _)
\* n in decimal, left-padded with zeros to w digits
PadNat(n, w) == IF w = 0 THEN <<>>
                ELSE PadNat(n \div 10, w - 1) \o <<Digits[(n % 10) + 1]>>

\* strconv.FormatFloat(v, 'f', -1, 64) of the float64 v = m / 10^e, where
\* m / 10^e is the shortest decimal of v (e = 0, or m not a multiple of 10)
FormatFloat(m, e) ==
    LET a == IF m < 0 THEN 0 - m ELSE m
        sign == IF m < 0 THEN <<"-">> ELSE <<>>
    IN  sign \o FormatNat(a \div Pow10(e))
             \o (IF e = 0 THEN <<>> ELSE <<".">> \o PadNat(a % Pow10(e), e))

\* strconv.FormatBool
FormatBool(b) == IF b THEN <<"t", "r", "u", "e">> ELSE <<"f", "a", "l", "s", "e">>

(***************************************************************************)
(* Program constants (texts).                                              *)
(***************************************************************************)
initialDepth == 0
valueSep == <<",">>
null == <<"n", "u", "l", "l">>
startMap == <<"{">>
endMap == <<"}">>
startArray == <<"[">>
endArray == <<"]">>
emptyMap == startMap \o endMap
emptyArray == startArray \o endArray

(***************************************************************************)
(* Style handles (color.PrinterFace).  A handle is its SGR code text; Nil  *)
(* is the nil interface.                                                   *)
(***************************************************************************)
Nil == <<>>
FgWhite == <<"3", "7">>
FgGreen == <<"3", "2">>
FgYellow == <<"3", "3">>
FgCyan == <<"3", "6">>
FgMagenta == <<"3", "5">>
FgRed == <<"3", "1">>
C256_250 == <<"3", "8", ";", "5", ";", "2", "5", "0">>

StartSet == <<"ESC", "[">>
ResetSet == <<"ESC", "[", "0", "m">>

\* c.Sprint(s) / c.Sprintf(...) of a non-nil handle: the text wrapped in the
\* handle's control sequences (the color level is forced on by init())
Render(c, s) == StartSet \o c \o <<"m">> \o s \o ResetSet

\* (f *Formatter) sprintColor
sprintColor(fm, c, s) == IF fm.DisabledColor \/ c = Nil THEN s ELSE Render(c, s)

\* the format "\"%s\": " applied to a key
KeyFormat(key) == <<"\"">> \o key \o <<"\"", ":", " ">>

(***************************************************************************)
(* The value domain: a reflect.Value tree.                                 *)
(*   Invalid      the zero reflect.Value (a nil interface, or the Elem of  *)
(*                a nil pointer / nil interface)                           *)
(*   Ptr(v)       a pointer whose Elem is v                                *)
(*   Iface(v)     an interface{} slot (an element of map[string]interface{}*)
(*                or []interface{}) whose Elem is v                        *)
(*   Map(es)      a map; es is the sequence of <<key, value>> in the order *)
(*                MapKeys yields them in this run                          *)
(*   Struct(fs)   a struct; fs is <<name, value>> in declaration order     *)
(***************************************************************************)
Invalid == [kind |-> "invalid"]
Str(s) == [kind |-> "string", s |-> s]
Float(m, e) == [kind |-> "float64", m |-> m, e |-> e]
IntVal(n) == [kind |-> "int", n |-> n]
UintVal(n) == [kind |-> "uint", n |-> n]
Bool(b) == [kind |-> "bool", b |-> b]
Ptr(v) == [kind |-> "ptr", elem |-> v]
Iface(v) == [kind |-> "interface", elem |-> v]
Slice(es) == [kind |-> "slice", elems |-> es]
Map(es) == [kind |-> "map", entries |-> es]
Struct(fs) == [kind |-> "struct", fields |-> fs]

(***************************************************************************)
(* The sink: f.Buffer, a bufio.Writer over the writer given to             *)
(* NewFormatter.  A sink is fixed by two numbers: failAt, the index of the *)
(* write call from which the underlying writer fails (0: it never fails),  *)
(* and partial, the bytes the failing write still accepts.  A write of no  *)
(* bytes cannot be the one that fails; once a write has failed the error   *)
(* is sticky and every later write accepts nothing.                        *)
(*   chunks  one text per write call that accepted anything or succeeded   *)
(*   calls   the number of write calls made                                *)
(***************************************************************************)
NewWriter(failAt, partial) ==
    [chunks |-> <<>>, calls |-> 0, failed |-> FALSE,
     failAt |-> failAt, partial |-> partial]

\* what a call returns: the writer after it, the bytes reported, and
\* st = "ok" (nil error), "err" (a write error) or "panic"
Ret(W, n, st) == [w |-> W, n |-> n, st |-> st]

\* (b *bufio.Writer) WriteString
WriteString(W, s) ==
    IF W.failed
    THEN Ret([W EXCEPT !.calls = @ + 1], 0, "err")
    ELSE IF W.failAt # 0 /\ W.calls + 1 >= W.failAt /\ Len(s) > 0
         THEN LET k == Min(W.partial, Len(s) - 1)
              IN  Ret([W EXCEPT !.calls = @ + 1, !.failed = TRUE,
                                !.chunks = IF k > 0 THEN Append(@, SubSeq(s, 1, k))
                                           ELSE @],
                      k, "err")
         ELSE Ret([W EXCEPT !.calls = @ + 1, !.chunks = Append(@, s)],
                  Len(s), "ok")

\* (b *bufio.Writer) WriteRune of a one-byte rune
WriteRune(W, r) == WriteString(W, <<r>>)

\* (b *bufio.Writer) Flush: the sticky error, or the error of the
\* underlying writer if it fails from this call on (nothing buffered: no call)
Flush(W) ==
    IF W.failed \/ (W.failAt # 0 /\ W.calls + 1 >= W.failAt /\ SumLen(W.chunks) > 0)
    THEN "err" ELSE "ok"

(***************************************************************************)
(* The Formatter.                                                          *)
(***************************************************************************)
\* NewFormatter: the configuration after construction
NewFormatter ==
    [BackColor |-> FgWhite, KeyColor |-> C256_250, StringColor |-> FgGreen,
     BoolColor |-> FgYellow, NumberColor |-> FgCyan, NullColor |-> FgMagenta,
     StringMaxLength |-> 0, DisabledColor |-> FALSE, Indent |-> 0,
     RawStrings |-> FALSE]

\* (f *Formatter) writeIndent
writeIndent(fm, W, depth) == WriteString(W, Repeat(fm.Indent * depth))

\* the object separator: a newline when indenting, else a space
ObjSep(fm) == IF fm.Indent # 0 THEN "\n" ELSE " "

\* (f *Formatter) writeObjSep
writeObjSep(fm, W) == WriteRune(W, ObjSep(fm))

\* escapeChar with the newline left as it is
escapeChar_rawNewline(c) ==
    CASE c = "\"" -> <<"\\", "\"">>
      [] c = "\\" -> <<"\\", "\\">>
      [] OTHER -> <<c>>

\* json.Marshal's escaping of one byte of a string (the bytes the model's
\* strings are made of: letters, the quote, the backslash, the newline)
escapeChar(c) ==
    CASE c = "\"" -> <<"\\", "\"">>
      [] c = "\\" -> <<"\\", "\\">>
      [] c = "\n" -> <<"\\", "n">>
      [] OTHER -> <<c>>

\* jsonMarshal without the surrounding quotes
jsonMarshal_unquoted(str) ==
    Concat([i \in 1..Len(str) |-> escapeChar(str[i])])

\* string(json.Marshal(str)): the escaped, double-quoted form
jsonMarshal(str) ==
    <<"\"">> \o Concat([i \in 1..Len(str) |-> escapeChar(str[i])]) \o <<"\"">>

\* needsTruncation with > in place of >=
needsTruncation_strict(fm, str) ==
    fm.StringMaxLength # 0 /\ Len(str) > fm.StringMaxLength

\* marshalString's truncation test
needsTruncation(fm, str) ==
    fm.StringMaxLength # 0 /\ Len(str) >= fm.StringMaxLength

\* fmt.Sprintf("%s...", str[0:f.StringMaxLength])
truncate(fm, str) == SubSeq(str, 1, fm.StringMaxLength) \o <<".", ".", ".">>

\* the text marshalString hands to the style: escaped unless RawStrings,
\* then truncated
stringText(fm, str) ==
    LET s1 == IF ~fm.RawStrings THEN jsonMarshal(str) ELSE str
    IN  IF needsTruncation(fm, s1) THEN truncate(fm, s1) ELSE s1

\* (f *Formatter) marshalString
marshalString(fm, str, W) ==
    WriteString(W, sprintColor(fm, fm.StringColor, stringText(fm, str)))

\* marshalValue's number case
numberText(val) ==
    IF val.kind = "float64" THEN FormatFloat(val.m, val.e) ELSE FormatInt(val.n)

\* arrayHasNext off by one: a comma after the last element too
arrayHasNext_offByOne(i, n) == i < n

\* marshalArray's test for a comma after element i (0-based) of n
arrayHasNext(i, n) == i < n - 1

\* marshalMap's and marshalStruct's test for a comma, after remaining--
hasRemaining(remaining) == remaining # 0

\* the depth at which marshalArray indents its elements
arrayElemDepth(depth) == depth

\* the depth at which marshalMap and marshalStruct indent their entries
entryDepth(depth) == depth + 1

\* the default case writing null instead of nothing
unknownKind_null(W) == WriteString(W, null)

\* the default of marshalValue's switch: no case matches
unknownKind(W) == Ret(W, 0, "ok")

\* reflect.Value.Elem of a pointer or an interface
Elem(val) == val.elem

\* marshalValue's unwrapping: one pointer layer, then one interface layer
unwrap(val) ==
    LET v1 == IF val.kind = "ptr" THEN Elem(val) ELSE val
    IN  IF v1.kind = "interface" THEN Elem(v1) ELSE v1

RECURSIVE marshalValue(_, _, _, _)
RECURSIVE mapLoop(_, _, _, _, _, _, _)
RECURSIVE arrayLoop(_, _, _, _, _, _)

(***************************************************************************)
(* The container renderers, one operator per step.  Each step takes r, the *)
(* result of the write (or nested call) before it, and wr, the bytes the   *)
(* caller had counted before that write; on an error it returns what the   *)
(* code returns there.                                                     *)
(***************************************************************************)
\* the last write of a container: the closing brace or bracket
closeEnd(wr, r) ==
    IF r.st # "ok" THEN Ret(r.w, wr, "err") ELSE Ret(r.w, wr + r.n, "ok")

\* after the closing indentation
closeBrace(fm, wr, closer, r) ==
    IF r.st # "ok" THEN Ret(r.w, wr, "err")
    ELSE closeEnd(wr + r.n, WriteString(r.w, sprintColor(fm, fm.BackColor, closer)))

\* the closing of all three containers, entered with the loop's result: the
\* indentation at depth, then the closing brace or bracket
closeContainer(fm, depth, closer, r) ==
    IF r.st # "ok" THEN r
    ELSE closeBrace(fm, r.n, closer, writeIndent(fm, r.w, depth))

\* marshalMap's loop after the entry's separator
mapEntryEnd(fm, es, i, remaining, wr, depth, r) ==
    IF r.st # "ok" THEN Ret(r.w, wr, "err")
    ELSE mapLoop(fm, es, i + 1, remaining, r.w, wr + r.n, depth)

\* ... after the comma, if one was due
mapEntrySep(fm, es, i, remaining, wr, depth, r) ==
    IF r.st # "ok" THEN Ret(r.w, wr, "err")
    ELSE mapEntryEnd(fm, es, i, remaining, wr + r.n, depth, writeObjSep(fm, r.w))

\* ... after the value: remaining--, then the comma if entries remain
mapEntryComma(fm, es, i, remaining, wr, depth, r) ==
    IF r.st = "panic" THEN Ret(r.w, 0, "panic")
    ELSE IF r.st # "ok" THEN Ret(r.w, wr, "err")
    ELSE mapEntrySep(fm, es, i, remaining - 1, wr + r.n, depth,
                     IF hasRemaining(remaining - 1)
                     THEN WriteString(r.w, sprintColor(fm, fm.BackColor, valueSep))
                     ELSE Ret(r.w, 0, "ok"))

\* ... after the key
mapEntryValue(fm, es, i, remaining, wr, depth, r) ==
    IF r.st # "ok" THEN Ret(r.w, wr, "err")
    ELSE mapEntryComma(fm, es, i, remaining, wr + r.n, depth,
                       marshalValue(fm, es[i][2], r.w, depth + 1))

\* ... after the indentation: the key goes through f.KeyColor.Sprintf, a
\* method call on the handle itself, which panics on a nil handle
mapEntryKey(fm, es, i, remaining, wr, depth, r) ==
    IF r.st # "ok" THEN Ret(r.w, wr, "err")
    ELSE IF fm.KeyColor = Nil THEN Ret(r.w, 0, "panic")
    ELSE mapEntryValue(fm, es, i, remaining, wr + r.n, depth,
                       WriteString(r.w, Render(fm.KeyColor, KeyFormat(es[i][1]))))

\* marshalMap's loop over m.MapKeys() (and marshalStruct's over the fields),
\* from entry i on; st = "ok": the loop ran to its end, n bytes counted
mapLoop(fm, es, i, remaining, W, wr, depth) ==
    IF i > Len(es) THEN Ret(W, wr, "ok")
    ELSE mapEntryKey(fm, es, i, remaining, wr, depth,
                     writeIndent(fm, W, entryDepth(depth)))

\* after the opening brace's separator; on an error the code returns n
openBraceSep(wr, r) ==
    IF r.st # "ok" THEN Ret(r.w, r.n, "err") ELSE Ret(r.w, wr + r.n, "ok")

\* after the opening brace; on an error the code returns wr, still 0
openBrace(fm, r) ==
    IF r.st # "ok" THEN Ret(r.w, 0, "err")
    ELSE openBraceSep(r.n, writeObjSep(fm, r.w))

\* marshalMap and marshalStruct after the opening
braceBody(fm, es, depth, r) ==
    IF r.st # "ok" THEN r
    ELSE closeContainer(fm, depth, endMap,
                        mapLoop(fm, es, 1, Len(es), r.w, r.n, depth))

\* (f *Formatter) marshalMap
marshalMap(fm, m, W, depth) ==
    IF Len(m.entries) = 0
    THEN WriteString(W, sprintColor(fm, fm.BackColor, emptyMap))
    ELSE braceBody(fm, m.entries, depth,
                   openBrace(fm, WriteString(W, sprintColor(fm, fm.BackColor, startMap))))

\* (f *Formatter) marshalStruct
marshalStruct(fm, m, W, depth) ==
    IF Len(m.fields) = 0
    THEN WriteString(W, sprintColor(fm, fm.BackColor, emptyMap))
    ELSE braceBody(fm, m.fields, depth,
                   openBrace(fm, WriteString(W, sprintColor(fm, fm.BackColor, startMap))))

\* marshalArray's loop after the element's separator
arrayElemEnd(fm, es, i, wr, depth, r) ==
    IF r.st # "ok" THEN Ret(r.w, wr, "err")
    ELSE arrayLoop(fm, es, i + 1, r.w, wr + r.n, depth)

\* ... after the comma, if one was due
arrayElemSep(fm, es, i, wr, depth, r) ==
    IF r.st # "ok" THEN Ret(r.w, wr, "err")
    ELSE arrayElemEnd(fm, es, i, wr + r.n, depth, writeObjSep(fm, r.w))

\* ... after the element: the comma if it is not the last
arrayElemComma(fm, es, i, wr, depth, r) ==
    IF r.st = "panic" THEN Ret(r.w, 0, "panic")
    ELSE IF r.st # "ok" THEN Ret(r.w, wr, "err")
    ELSE arrayElemSep(fm, es, i, wr + r.n, depth,
                      IF arrayHasNext(i - 1, Len(es))
                      THEN WriteString(r.w, sprintColor(fm, fm.BackColor, valueSep))
                      ELSE Ret(r.w, 0, "ok"))

\* ... after the indentation
arrayElemValue(fm, es, i, wr, depth, r) ==
    IF r.st # "ok" THEN Ret(r.w, wr, "err")
    ELSE arrayElemComma(fm, es, i, wr + r.n, depth,
                        marshalValue(fm, es[i], r.w, depth + 1))

\* marshalArray's loop, from element i (1-based here) on
arrayLoop(fm, es, i, W, wr, depth) ==
    IF i > Len(es) THEN Ret(W, wr, "ok")
    ELSE arrayElemValue(fm, es, i, wr, depth,
                        writeIndent(fm, W, arrayElemDepth(depth)))

\* after the opening bracket's separator
openBracketSep(fm, es, wr, depth, r) ==
    IF r.st # "ok" THEN Ret(r.w, wr, "err")
    ELSE closeContainer(fm, depth, endArray,
                        arrayLoop(fm, es, 1, r.w, wr + r.n, depth))

\* after the opening bracket; on an error the code returns n
openBracket(fm, es, depth, r) ==
    IF r.st # "ok" THEN Ret(r.w, r.n, "err")
    ELSE openBracketSep(fm, es, r.n, depth, writeObjSep(fm, r.w))

\* (f *Formatter) marshalArray
marshalArray(fm, a, W, depth) ==
    IF Len(a.elems) = 0
    THEN WriteString(W, sprintColor(fm, fm.BackColor, emptyArray))
    ELSE openBracket(fm, a.elems, depth,
                     WriteString(W, sprintColor(fm, fm.BackColor, startArray)))

\* marshalValue's switch on the unwrapped value.  val.Type() of the zero
\* Value panics, so the switch is never reached with an Invalid value and
\* its reflect.Invalid case never runs.
dispatch(fm, v, W, depth) ==
    IF v.kind = "invalid" THEN Ret(W, 0, "panic")
    ELSE CASE v.kind = "map" -> marshalMap(fm, v, W, depth)
           [] v.kind = "slice" -> marshalArray(fm, v, W, depth)
           [] v.kind = "string" -> marshalString(fm, v.s, W)
           [] v.kind \in {"float64", "int"} ->
                 WriteString(W, sprintColor(fm, fm.NumberColor, numberText(v)))
           [] v.kind = "bool" ->
                 WriteString(W, sprintColor(fm, fm.BoolColor, FormatBool(v.b)))
           [] v.kind = "struct" -> marshalStruct(fm, v, W, depth)
           [] OTHER -> unknownKind(W)

\* (f *Formatter) marshalValue
marshalValue(fm, val, W, depth) == dispatch(fm, unwrap(val), W, depth)

\* Encode after marshalValue: its error, else the error of Flush
encodeEnd(r) ==
    [out |-> r.w.chunks, ret |-> [n |-> r.n, st |-> r.st],
     err |-> IF r.st # "ok" THEN r.st ELSE Flush(r.w)]

\* Encode's pass-through of a string: the write's result is dropped
encodeString(r) ==
    [out |-> r.w.chunks, ret |-> [n |-> 0, st |-> "skipped"], err |-> Flush(r.w)]

\* (f *Formatter) Encode: what it leaves in the sink, what the outermost
\* marshalValue returned (st = "skipped" when it is not called), and
\* Encode's own result ("ok": nil, "err": an error, "panic")
Encode(fm, W, obj) ==
    IF obj.kind = "string"
    THEN encodeString(WriteString(W, obj.s))
    ELSE encodeEnd(marshalValue(fm, obj, W, initialDepth))

(***************************************************************************)
(* The inputs: the values given to Encode.                                 *)
(***************************************************************************)
sFoo == <<"f", "o", "o">>
sAbcdef == <<"a", "b", "c", "d", "e", "f">>
sNewline == <<"a", "\n", "b">>
sQuote == <<"a", "\"">>
sBackslash == <<"\\">>

Strings == {<<>>, sBackslash, sQuote, sFoo, sNewline, sAbcdef}

kA == <<"a">>
kB == <<"b">>
kC == <<"c">>

\* the scalars, and a kind marshalValue's switch does not list
Scalars == {Str(s) : s \in Strings}
             \cup {Float(100, 0), Float(15, 1), IntVal(0 - 7), Bool(TRUE), Bool(FALSE)}
Leaves == Scalars \cup {UintVal(5)}

\* pointers: to a string, to an int, the nil pointer, a pointer to a pointer
Pointers == {Ptr(Str(s)) : s \in Strings}
              \cup {Ptr(IntVal(0 - 7)), Ptr(Invalid), Ptr(Ptr(IntVal(1)))}

\* elements of a []interface{} or map[string]interface{}: a string, a
\* number, a boolean, JSON null, and an unlisted kind
DynElems == {Iface(Str(sFoo)), Iface(Float(100, 0)), Iface(Bool(FALSE)),
             Iface(Invalid), Iface(UintVal(5))}
MapElems == {Iface(Float(1, 0)), Iface(Str(sFoo)), Iface(Invalid), Iface(UintVal(5))}

Slices == {Slice(<<>>)}
            \cup {Slice(<<x>>) : x \in DynElems}
            \cup {Slice(<<x, y>>) : x, y \in DynElems}
            \cup {Slice(<<Iface(Str(sFoo)), Iface(Str(sNewline)), Iface(Str(sAbcdef))>>),
                  Slice(<<IntVal(1), IntVal(2), IntVal(3)>>),
                  Slice(<<Iface(Ptr(IntVal(1))), Iface(Float(1, 0))>>)}

\* maps, with every order in which MapKeys may yield the keys
Maps == {Map(<<>>)}
          \cup {Map(<< <<k, x>> >>) : k \in {kA, kB}, x \in MapElems}
          \cup {Map(<< <<kA, x>>, <<kB, y>> >>) : x, y \in MapElems}
          \cup {Map(<< <<kB, x>>, <<kA, y>> >>) : x, y \in MapElems}
          \cup {Map(<< <<p[1], Iface(Float(1, 0))>>, <<p[2], Iface(Float(2, 0))>>,
                       <<p[3], Iface(Float(3, 0))>> >>) :
                  p \in {<<kA, kB, kC>>, <<kC, kA, kB>>, <<kB, kC, kA>>}}

Inner == {Slice(<<>>), Slice(<<Iface(Float(1, 0))>>),
          Slice(<<Iface(Float(1, 0)), Iface(Float(2, 0))>>),
          Map(<<>>),
          Map(<< <<kA, Iface(Float(1, 0))>>, <<kB, Iface(Float(2, 0))>> >>),
          Map(<< <<kB, Iface(Float(2, 0))>>, <<kA, Iface(Float(1, 0))>> >>)}

Nested == {Slice(<<Iface(c)>>) : c \in Inner}
            \cup {Slice(<<Iface(c), Iface(Float(1, 0))>>) : c \in Inner}
            \cup {Map(<< <<<<"o", "b", "j">>, Iface(c)>> >>) : c \in Inner}
            \cup {Map(<< <<kA, Iface(c)>>, <<kB, Iface(Float(1, 0))>> >>) : c \in Inner}

\* typed records, with their fields in declaration order
Structs == {Struct(<<>>),
            Struct(<< <<<<"x">>, IntVal(1)>>, <<<<"y">>, Str(sFoo)>> >>),
            Struct(<< <<<<"y">>, IntVal(1)>>, <<<<"x">>, Bool(TRUE)>> >>),
            Struct(<< <<<<"p">>, Ptr(IntVal(1))>> >>),
            Struct(<< <<<<"p">>, Ptr(Invalid)>>, <<<<"q">>, IntVal(1)>> >>),
            Struct(<< <<<<"u">>, UintVal(5)>>, <<<<"v">>, IntVal(1)>> >>),
            Struct(<< <<<<"x">>, Slice(<<IntVal(1), IntVal(2)>>)>>,
                      <<<<"y">>, Struct(<< <<<<"z">>, Bool(FALSE)>> >>)>> >>)}

\* the object of examples/simple.go, as json.Unmarshal decodes it, its keys
\* in one order MapKeys may yield
ExampleObj ==
    Map(<< <<<<"s", "t", "r">>, Iface(Str(sFoo))>>,
           <<<<"n", "u", "m">>, Iface(Float(100, 0))>>,
           <<<<"b", "o", "o", "l">>, Iface(Bool(FALSE))>>,
           <<<<"a", "r", "r", "a", "y">>,
             Iface(Slice(<<Iface(Str(sFoo)), Iface(Str(<<"b", "a", "r">>)),
                           Iface(Str(<<"b", "a", "z">>))>>))>>,
           <<<<"o", "b", "j">>,
             Iface(Map(<< <<kA, Iface(Float(1, 0))>>, <<kB, Iface(Float(2, 0))>> >>))>>,
           <<<<"n", "u", "l", "l">>, Iface(Invalid)>> >>)

Values == {Invalid} \cup Leaves \cup Pointers \cup Slices \cup Maps
            \cup Nested \cup Structs \cup {ExampleObj}

\* the sinks a Formatter may be constructed over
Sinks == {NewWriter(0, 0)}
           \cup {NewWriter(a, p) : a \in 1..MaxFailAt, p \in 0..MaxPartial}

\* the handles a caller assigns
KeyHandles == {Nil, C256_250, FgRed}
BackHandles == {Nil, FgWhite}

(***************************************************************************)
(* The state machine: a Formatter is constructed over a sink, the caller   *)
(* assigns its exported fields, and Encode renders one value.              *)
(*   f        the Formatter's configuration fields                         *)
(*   sink     f.Buffer                                                     *)
(*   pc       "new" until Encode has run, then "done"                      *)
(*   jsonObj  Encode's argument                                            *)
(*   out      the chunks the sink accepted                                 *)
(*   ret      the (n, error) the outermost marshalValue returned           *)
(*   encErr   what Encode returned                                         *)
(***************************************************************************)
Init ==
    /\ f = NewFormatter
    /\ sink \in Sinks
    /\ pc = "new"
    /\ jsonObj = Invalid
    /\ out = <<>>
    /\ ret = [n |-> 0, st |-> "none"]
    /\ encErr = "none"

Assign(field, v) ==
    /\ pc = "new"
    /\ f' = [f EXCEPT ![field] = v]
    /\ UNCHANGED <<sink, pc, jsonObj, out, ret, encErr>>

SetIndent == \E n \in 0..MaxIndent : Assign("Indent", n)

SetStringMaxLength == \E n \in 0..MaxStringMaxLength : Assign("StringMaxLength", n)

SetDisabledColor == \E b \in BOOLEAN : Assign("DisabledColor", b)

SetRawStrings == \E b \in BOOLEAN : Assign("RawStrings", b)

SetKeyColor == \E c \in KeyHandles : Assign("KeyColor", c)

SetBackColor == \E c \in BackHandles : Assign("BackColor", c)

Returned(obj, r) ==
    /\ jsonObj' = obj
    /\ out' = r.out
    /\ ret' = r.ret
    /\ encErr' = r.err

DoEncode ==
    /\ pc = "new"
    /\ \E obj \in Values : Returned(obj, Encode(f, sink, obj))
    /\ pc' = "done"
    /\ UNCHANGED <<f, sink>>

Next ==
    \/ SetIndent
    \/ SetStringMaxLength
    \/ SetDisabledColor
    \/ SetRawStrings
    \/ SetKeyColor
    \/ SetBackColor
    \/ DoEncode

Spec == Init /\ [][Next]_vars

(***************************************************************************)
(* Reading the output.                                                     *)
(***************************************************************************)
\* the emitted text
Flat == Concat(out)

\* the value Encode's argument unwraps to
Root == unwrap(jsonObj)

\* Encode has returned and the outermost marshalValue returned no error
Completed == pc = "done" /\ ret.st = "ok"

\* the punctuation chunks under the state's configuration
Comma == sprintColor(f, f.BackColor, valueSep)
Openers == {sprintColor(f, f.BackColor, startMap), sprintColor(f, f.BackColor, startArray)}
Closers == {sprintColor(f, f.BackColor, endMap), sprintColor(f, f.BackColor, endArray)}
SepChunk == <<ObjSep(f)>>

\* the chunk of a key
KeyChunk(k) == Render(f.KeyColor, KeyFormat(k))

\* the index of the first chunk equal to c
IndexOf(c) == CHOOSE i \in 1..Len(out) : out[i] = c /\ \A j \in 1..(i - 1) : out[j] # c

\* a styled chunk without the control sequences of handle c around it
Unstyled(c, t) ==
    IF f.DisabledColor \/ c = Nil THEN t
    ELSE SubSeq(t, Len(StartSet) + Len(c) + 2, Len(t) - Len(ResetSet))

\* the direct entries of a container, as values
Children(v) ==
    CASE v.kind = "slice" -> v.elems
      [] v.kind = "map" -> [i \in 1..Len(v.entries) |-> v.entries[i][2]]
      [] v.kind = "struct" -> [i \in 1..Len(v.fields) |-> v.fields[i][2]]
      [] OTHER -> <<>>

\* the entries of a keyed container
Pairs(v) == IF v.kind = "map" THEN v.entries
            ELSE IF v.kind = "struct" THEN v.fields ELSE <<>>

IsContainer(v) == v.kind \in {"slice", "map", "struct"}

\* the kinds marshalValue's switch lists
ListedKinds == {"map", "slice", "string", "float64", "int", "bool", "struct"}

\* a container none of whose entries is a container
IsFlat(v) == \A i \in 1..Len(Children(v)) : ~IsContainer(unwrap(Children(v)[i]))

Letters == <<"a", "b", "c", "d", "e", "f", "g", "h", "i", "j", "k", "l", "m",
             "n", "o", "p", "q", "r", "s", "t", "u", "v", "w", "x", "y", "z">>
Ord(c) == CHOOSE i \in 1..Len(Letters) : Letters[i] = c

RECURSIVE LexLess(_, _)
\* s sorts before t, byte by byte
LexLess(s, t) ==
    IF t = <<>> THEN FALSE
    ELSE IF s = <<>> THEN TRUE
    ELSE IF s[1] # t[1] THEN Ord(s[1]) < Ord(t[1])
    ELSE LexLess(Tail(s), Tail(t))

(***************************************************************************)
(* C1.  The entries of a dynamic Object are emitted in ascending order of  *)
(* key: for keys k1 < k2 of the same object, the text of k1 comes before   *)
(* the text of k2 in the output.  Stated for a rendered root map without   *)
(* nested containers.  The code iterates m.MapKeys() as yielded, unsorted. *)
(***************************************************************************)
C1_KeysAscending ==
    (Completed /\ jsonObj.kind = "map" /\ IsFlat(jsonObj)) =>
        \A i, j \in 1..Len(jsonObj.entries) :
            LexLess(jsonObj.entries[i][1], jsonObj.entries[j][1]) =>
                IndexOf(KeyChunk(jsonObj.entries[i][1]))
                    < IndexOf(KeyChunk(jsonObj.entries[j][1]))

(***************************************************************************)
(* C2.  With DisabledColor set the output holds no control sequence and is *)
(* the same for every key handle, the absent one included.  The code sends *)
(* the key through f.KeyColor.Sprintf whatever DisabledColor says.         *)
(***************************************************************************)
C2_DisabledColorIsUnstyled ==
    (pc = "done" /\ f.DisabledColor) =>
        /\ "ESC" \notin Chars(Flat)
        /\ \A c \in KeyHandles :
               Concat(Encode([f EXCEPT !.KeyColor = c], sink, jsonObj).out) = Flat

(***************************************************************************)
(* C3.  In a non-empty Array rendered at depth d with indent N every       *)
(* element is preceded by N*(d+1) spaces and the closing bracket by N*d.   *)
(* Stated for a root array of scalars (d = 0) and for an array that is the *)
(* first element of the root array (d = 1).  The code indents the elements *)
(* at depth, not depth+1.                                                  *)
(***************************************************************************)
C3_ArrayElementIndent ==
    /\ (Completed /\ jsonObj.kind = "slice" /\ Len(jsonObj.elems) > 0
          /\ \A i \in 1..Len(jsonObj.elems) : unwrap(jsonObj.elems[i]).kind \in
                 {"string", "float64", "int", "bool"}) =>
           /\ \A i \in 1..Len(jsonObj.elems) :
                  out[3 + 4 * (i - 1)] = Repeat(f.Indent * (0 + 1))
           /\ out[Len(out) - 1] = Repeat(f.Indent * 0)
    /\ (Completed /\ jsonObj.kind = "slice" /\ Len(jsonObj.elems) > 0
          /\ unwrap(jsonObj.elems[1]).kind = "slice"
          /\ Len(unwrap(jsonObj.elems[1]).elems) > 0) =>
           out[6] = Repeat(f.Indent * (1 + 1))

(***************************************************************************)
(* C4.  Rendering a Null value (a nil interface at the root, a nil         *)
(* pointer, JSON null as an array element or map value) writes the text    *)
(* null under the null style and returns normally.  In the code            *)
(* val.Type() panics on the zero reflect.Value before the switch.          *)
(***************************************************************************)
C4_NullRendersNull ==
    /\ (pc = "done" /\ sink.failAt = 0 /\ jsonObj \in {Invalid, Ptr(Invalid)}) =>
           /\ encErr = "ok"
           /\ out = <<sprintColor(f, f.NullColor, null)>>
    /\ (pc = "done" /\ f.KeyColor # Nil
          /\ \E i \in 1..Len(Children(jsonObj)) : unwrap(Children(jsonObj)[i]) = Invalid) =>
           encErr # "panic"

(***************************************************************************)
(* C5.  When a sink write fails, the renderer returns the error together   *)
(* with the number of bytes written before the failure, at every step.     *)
(* The code returns n in place of wr after the first separator of an       *)
(* object or record, and drops the bytes a failing nested call or write    *)
(* had already written.                                                    *)
(***************************************************************************)
C5_ErrorCountIsBytesWritten ==
    (pc = "done" /\ ret.st = "err") => ret.n = SumLen(out)

RECURSIVE OwnCommas(_, _)
\* the commas of chunks i.. that are at nesting level 1, entered at level lvl
OwnCommas(i, lvl) ==
    IF i > Len(out) THEN 0
    ELSE IF out[i] \in Openers THEN OwnCommas(i + 1, lvl + 1)
    ELSE IF out[i] \in Closers THEN OwnCommas(i + 1, lvl - 1)
    ELSE (IF out[i] = Comma /\ lvl = 1 THEN 1 ELSE 0) + OwnCommas(i + 1, lvl)

AllCommas == Cardinality({i \in 1..Len(out) : out[i] = Comma})

RECURSIVE SumOver(_, _)
RECURSIVE TreeCommas(_)
SumOver(vs, i) == IF i > Len(vs) THEN 0 ELSE TreeCommas(vs[i]) + SumOver(vs, i + 1)

\* k-1 for every non-empty container of the tree, summed
TreeCommas(val) ==
    LET v == unwrap(val)
    IN  IF v.kind \in {"invalid", "ptr"} \/ ~IsContainer(v) \/ Len(Children(v)) = 0 THEN 0
        ELSE (Len(Children(v)) - 1) + SumOver(Children(v), 1)

(***************************************************************************)
(* C6.  A non-empty Object, Record or Array with k direct entries emits    *)
(* exactly k-1 commas at its own level, each right after an entry that is  *)
(* not the last, and none between the last entry and the closing brace or  *)
(* bracket.  Checked on every completed render of a root container: the    *)
(* commas at the root's own level, the commas of the whole tree, what      *)
(* follows each comma, and what precedes the closing; and on every render, *)
(* completed or not, at most k-1 commas are at the root's own level.       *)
(***************************************************************************)
C6_CommasBetweenEntries ==
    (pc = "done" /\ Root.kind # "invalid" /\ IsContainer(Root) /\ Len(Children(Root)) > 0) =>
        /\ OwnCommas(1, 0) <= Len(Children(Root)) - 1
        /\ \A i \in 1..Len(out) : out[i] = Comma => i > 1 /\ out[i - 1] \notin {Comma, SepChunk}
        /\ Completed =>
             /\ OwnCommas(1, 0) = Len(Children(Root)) - 1
             /\ AllCommas = TreeCommas(jsonObj)
             /\ \A i \in 1..Len(out) :
                    out[i] = Comma => /\ i + 3 <= Len(out)
                                      /\ out[i + 1] = SepChunk
                                      /\ out[i + 3] \notin Closers
             /\ out[Len(out)] \in Closers
             /\ out[Len(out) - 2] = SepChunk
             /\ out[Len(out) - 3] # Comma

\* C6, witness: a completed root map of three entries with its two commas
C6_Witness ==
    /\ Completed
    /\ jsonObj.kind = "map" /\ Len(jsonObj.entries) = 3
    /\ OwnCommas(1, 0) = 2

ScalarKinds == {"string", "float64", "int", "uint", "bool", "invalid"}

\* a String emitted without escaping: in raw-strings mode, or given to
\* Encode as the root value itself
Verbatim == Root.kind = "string" /\ (f.RawStrings \/ jsonObj.kind = "string")

(***************************************************************************)
(* C7.  As claimed: a value tree that is a single scalar, rendered at      *)
(* indent 0, has no newline in its output, for every setting of            *)
(* RawStrings and StringMaxLength.                                         *)
(***************************************************************************)
C7_ScalarHasNoNewline ==
    (pc = "done" /\ f.Indent = 0 /\ Root.kind \in ScalarKinds) =>
        "\n" \notin Chars(Flat)

(***************************************************************************)
(* C7, amended.  A single scalar rendered at indent 0 has a newline in its *)
(* output only if it is a String emitted verbatim (raw-strings mode, or    *)
(* the root string Encode passes through) that itself holds a newline; for *)
(* every StringMaxLength.                                                  *)
(***************************************************************************)
C7_ScalarNewlineOnlyVerbatim ==
    (pc = "done" /\ f.Indent = 0 /\ Root.kind \in ScalarKinds) =>
        ("\n" \in Chars(Flat) => Verbatim /\ "\n" \in Chars(Root.s))

\* C7, witness: a string holding a newline, rendered escaped at indent 0
C7_Witness ==
    /\ Completed /\ f.Indent = 0 /\ ~f.RawStrings
    /\ jsonObj = Ptr(Str(sNewline))
    /\ Len(Flat) > 0 /\ "\n" \notin Chars(Flat)

(***************************************************************************)
(* Reading a JSON string literal back, independently of jsonMarshal.       *)
(***************************************************************************)
Unescaped(c) ==
    CASE c = "n" -> "\n"
      [] c = "\"" -> "\""
      [] c = "\\" -> "\\"
      [] OTHER -> "?"

RECURSIVE Unquote(_)
\* the string an escaped text stands for
Unquote(e) ==
    IF e = <<>> THEN <<>>
    ELSE IF e[1] = "\\"
         THEN IF Len(e) < 2 THEN <<"?">>
              ELSE <<Unescaped(e[2])>> \o Unquote(SubSeq(e, 3, Len(e)))
         ELSE <<e[1]>> \o Unquote(Tail(e))

RECURSIVE WellEscaped(_)
\* no bare quote and no bare newline, and every backslash starts an escape
WellEscaped(e) ==
    IF e = <<>> THEN TRUE
    ELSE IF e[1] = "\\"
         THEN Len(e) >= 2 /\ e[2] \in {"n", "\"", "\\"} /\ WellEscaped(SubSeq(e, 3, Len(e)))
         ELSE e[1] \notin {"\"", "\n"} /\ WellEscaped(Tail(e))

\* t is the escaped, double-quoted form of s
IsJsonString(t, s) ==
    /\ Len(t) >= 2 /\ t[1] = "\"" /\ t[Len(t)] = "\""
    /\ WellEscaped(SubSeq(t, 2, Len(t) - 1))
    /\ Unquote(SubSeq(t, 2, Len(t) - 1)) = s

\* chunk i is the styled text of the escaped, double-quoted form of s
IsStyledJsonString(i, s) ==
    /\ i <= Len(out)
    /\ out[i] = sprintColor(f, f.StringColor, Unstyled(f.StringColor, out[i]))
    /\ IsJsonString(Unstyled(f.StringColor, out[i]), s)

(***************************************************************************)
(* C8.  As claimed: with RawStrings off a String is emitted in its         *)
(* escaped, double-quoted form also when it is the root value given to     *)
(* Encode (no truncation set).                                             *)
(***************************************************************************)
C8_RootStringIsQuoted ==
    (pc = "done" /\ encErr = "ok" /\ ~f.RawStrings /\ f.StringMaxLength = 0
       /\ Root.kind = "string") =>
        IsStyledJsonString(1, Root.s)

(***************************************************************************)
(* C8, amended.  With RawStrings off (and no truncation set) a String is   *)
(* emitted in its escaped, double-quoted form wherever marshalValue        *)
(* reaches it: behind a pointer at the root, as an array element, as a map *)
(* value or record field.  A string given to Encode as the root value      *)
(* itself is written through unchanged, without quotes or escaping.        *)
(***************************************************************************)
C8_StringIsQuotedBelowEncode ==
    (pc = "done" /\ encErr = "ok" /\ f.StringMaxLength = 0) =>
        /\ (jsonObj.kind = "string") => out = <<jsonObj.s>>
        /\ (~f.RawStrings /\ jsonObj.kind = "ptr" /\ Root.kind = "string") =>
               Len(out) = 1 /\ IsStyledJsonString(1, Root.s)
        /\ (~f.RawStrings /\ jsonObj.kind = "slice" /\ Len(jsonObj.elems) > 0
              /\ unwrap(jsonObj.elems[1]).kind = "string") =>
               IsStyledJsonString(4, unwrap(jsonObj.elems[1]).s)
        /\ (~f.RawStrings /\ jsonObj.kind \in {"map", "struct"}) =>
               \A i \in 1..Len(Pairs(jsonObj)) :
                   unwrap(Pairs(jsonObj)[i][2]).kind = "string" =>
                       IsStyledJsonString(IndexOf(KeyChunk(Pairs(jsonObj)[i][1])) + 1,
                                          unwrap(Pairs(jsonObj)[i][2]).s)

\* C8, witness: the string a" behind a root pointer, rendered as "a\""
C8_Witness ==
    /\ pc = "done" /\ encErr = "ok" /\ ~f.RawStrings /\ f.StringMaxLength = 0
    /\ jsonObj = Ptr(Str(sQuote))
    /\ Unstyled(f.StringColor, out[1]) = <<"\"", "a", "\\", "\"", "\"">>

Dots == <<".", ".", ".">>

\* the string's text before truncation
Escaped(s) == IF f.RawStrings THEN s ELSE jsonMarshal(s)

\* chunk i is the styled, truncated text of string s
IsTruncated(i, s) ==
    LET body == Unstyled(f.StringColor, out[i])
        text == Escaped(s)
        T == f.StringMaxLength
    IN  /\ out[i] = sprintColor(f, f.StringColor, body)
        /\ (T > 0 /\ Len(text) >= T) =>
               /\ Len(body) = T + 3
               /\ \A j \in 1..T : body[j] = text[j]
               /\ SubSeq(body, T + 1, T + 3) = Dots
        /\ (T = 0 \/ Len(text) < T) => body = text
        /\ (T = 3 /\ f.RawStrings /\ s = sAbcdef) => body = <<"a", "b", "c", ".", ".", ".">>

IsUnlisted(val) == unwrap(val).kind \notin (ListedKinds \cup {"invalid"})

(***************************************************************************)
(* C10.  A value whose unwrapped kind the switch does not list (an         *)
(* unsigned integer, a pointer behind a pointer or inside an interface)    *)
(* writes nothing and returns zero bytes and no error; an enclosing        *)
(* container still emits the entry's key, and its comma and separator      *)
(* right after it.                                                         *)
(***************************************************************************)
C10_UnlistedKindWritesNothing ==
    /\ (pc = "done" /\ IsUnlisted(jsonObj)) =>
           out = <<>> /\ ret = [n |-> 0, st |-> "ok"] /\ encErr = "ok"
    /\ (Completed /\ jsonObj.kind \in {"map", "struct"}) =>
           \A i \in 1..Len(Pairs(jsonObj)) :
               IsUnlisted(Pairs(jsonObj)[i][2]) =>
                   out[IndexOf(KeyChunk(Pairs(jsonObj)[i][1])) + 1]
                       = (IF i < Len(Pairs(jsonObj)) THEN Comma ELSE SepChunk)
    /\ (Completed /\ jsonObj.kind = "slice" /\ Len(jsonObj.elems) > 0
          /\ IsUnlisted(jsonObj.elems[1])) =>
           /\ out[3] = Repeat(0)
           /\ out[4] = (IF Len(jsonObj.elems) > 1 THEN Comma ELSE SepChunk)

\* C10, witness: a map whose first value is a uint, its key followed by the comma
C10_Witness ==
    /\ Completed
    /\ jsonObj = Map(<< <<kA, Iface(UintVal(5))>>, <<kB, Iface(Float(1, 0))>> >>)
    /\ out[IndexOf(KeyChunk(kA)) + 1] = Comma

====
